---- MODULE Spec2Model ----
(***************************************************************************)
(* The hero background animation of the portfolio site (hero.ts): the      *)
(* scene lifecycle (ngAfterViewInit / ngOnDestroy), the self-rescheduling  *)
(* frame loop (animate), the pointer-move and resize handlers and the      *)
(* theme effect.                                                           *)
(*                                                                         *)
(* Fixed point: clock time, delays, progress counters, target scale,       *)
(* opacity and Math.random() draws are held in thousandths (1.0 = 1000);   *)
(* scale.y and position.y are held in millionths (a product of two         *)
(* thousandths), so that the code's products are exact.                    *)
(***************************************************************************)
EXTENDS Integers, Sequences, FiniteSets, TLC

VARIABLES
    phase,                  \* "constructed" | "viewInit" | "destroyed"
    canvasContainer,        \* whether @ViewChild('canvasContainer') resolved
    theme,                  \* themeService.theme()
    scene,                  \* << >> while undefined, else <<[background]>>
    renderer,               \* "undefined" | "live" | "disposed"
    rendererSize,           \* the size last given to renderer.setSize
    cubes,                  \* this.cubes, in forEach order
    hoveredCube,            \* index into cubes, 0 for null
    mouse,                  \* "inside" (NDC in [-1,1]) | "outside" (-1000,-1000)
    animationId,            \* 0 for null, else the last requestAnimationFrame handle
    rafPending,             \* the window's pending animation-frame callbacks
    time,                   \* this.time
    hideDraw,               \* per cell, <<r>> for the Math.random() draw r of the
                            \* last frame's reappear check, << >> if it made none
    currentColors,          \* << >> while undefined, else <<palette>>
    removeResizeListener,   \* whether the cleanup closure is set
    removeMouseMoveListener,
    listeners,              \* the window's registered listeners of this component
    calls,                  \* how often each release call was invoked
    errors                  \* the TypeErrors thrown so far, by site

vars == <<phase, canvasContainer, theme, scene, renderer, rendererSize, cubes,
          hoveredCube, mouse, animationId, rafPending, time, hideDraw,
          currentColors, removeResizeListener, removeMouseMoveListener, listeners,
          calls, errors>>

---------------------------------------------------------------------------
\* Bounds of the model

\* frames the long animation run may execute
MaxFrames == 670
\* frames the run with pointer and theme events may execute
EventFrames == 572
\* frames the lifecycle run may execute
LifeFrames == 4
\* the cells the long runs track, by forEach index (0-based): cell (4,4),
\* whose highlight trigger comes first
RunCells == <<24>>
\* the cells the lifecycle run tracks: cells (0,0) and (4,4)
LifeCells == <<0, 24>>
\* how often ngOnDestroy may be called
MaxDestroys == 2
\* frames the run of two cells under pointer moves may execute
HoverFrames == 425
\* the cells that run tracks: cells (4,3) and (4,4), whose highlight triggers
\* come first
HoverCells == <<23, 24>>
\* frames the run under fairness may execute: to the end of the longest
\* hidden interval that can follow the first collapse
LiveFrames == 666

\* Math.random() draws, in thousandths of [0,1)
RandomDraws == {0, 500, 999}

\* container sizes the resize handler may observe
ContainerSizes == {"small", "large"}

---------------------------------------------------------------------------
\* Program constants

gridSize == 5
TimeStep == 20
GrowStep == 30
CollapseStep == 20
HighlightPeriod == 18000
HighlightWindow == 500
TriggerLow == 300
TriggerHigh == 350
HideBase == 2000
ExpandExtra == 5000
One == 1000
Half == 500
White == 16777215
Black == 0
DarkBackground == 724240
HoverOpacity == 1000
HighlightOpacity == 300

Undefined == "undefined"

---------------------------------------------------------------------------
\* Math.sin of an angle in millionths of a radian, in thousandths:
\* reduction to [-pi/2, pi/2], then the Taylor polynomial to x^7 in units of
\* one ten-thousandth.
TwoPiMicro == 6283185

PiMicro == 3141593

\* the angle brought from [0, 2 pi) to (-pi, pi]
SinWrap(r) == IF r > PiMicro THEN r - TwoPiMicro ELSE r

\* the angle brought from (-pi, pi] to [-pi/2, pi/2], its sine unchanged
SinFold(r) ==
    IF r > PiMicro \div 2 THEN PiMicro - r
    ELSE IF r < -(PiMicro \div 2) THEN -PiMicro - r ELSE r

\* the terms x^3/3!, x^5/5!, x^7/7!, each from the one before
SinTerm(prev, x, k) == (prev * ((x * x) \div 10000)) \div (10000 * k)

SinPoly3(x, t3, t5) == (x - t3 + t5 - SinTerm(t5, x, 42) + 5) \div 10

SinPoly2(x, t3) == SinPoly3(x, t3, SinTerm(t3, x, 20))

\* the sine of x >= 0 ten-thousandths of a radian
SinPoly(x) == SinPoly2(x, SinTerm(x, x, 6))

\* sine is odd
SinOdd(r) == IF r < 0 THEN -SinPoly((-r) \div 100) ELSE SinPoly(r \div 100)

Sin(a) == SinOdd(SinFold(SinWrap(a % TwoPiMicro)))

\* targetScale of the cell at grid position (x, z) at clock time t
TargetScale(x, z, t) ==
    LET wave1 == Sin(x * 500000 + t * 1000) * 2
        wave2 == Sin(z * 500000 + t * 1200) * 2
        wave3 == (Sin((x + z) * 300000 + t * 800) * 3) \div 2
        height == (wave1 + wave2 + wave3) \div 3
    IN  One + height \div 2

\* (this.time + highlightTime) % 18
HighlightCycle(t, c) == (t + c.highlightTime) % HighlightPeriod

\* const isHighlighted = !this.hoveredCube && highlightCycle < 0.5
IsHighlighted(t, c, hov) == hov = 0 /\ HighlightCycle(t, c) < HighlightWindow

---------------------------------------------------------------------------
\* The palettes of updateThemeColors and the fallback of animate

Palette(th) ==
    LET isDarkMode == th = "dark"
    IN  [wireframe      |-> IF isDarkMode THEN White ELSE Black,
         wireframeHover |-> IF isDarkMode THEN Black ELSE White,
         fill           |-> IF isDarkMode THEN Black ELSE White,
         fillHover      |-> IF isDarkMode THEN White ELSE Black,
         highlightFill  |-> IF isDarkMode THEN White ELSE Black]

Background(th) == IF th = "dark" THEN DarkBackground ELSE White

FallbackColors ==
    [wireframe |-> White, wireframeHover |-> Black, fill |-> Black,
     fillHover |-> White, highlightFill |-> White]

\* variant: the frame always takes the hard-coded palette
FrameColorsHardCoded(cc) == FallbackColors

\* const colors = (this as any).currentColors || { ... }
FrameColors(cc) == IF cc = << >> THEN FallbackColors ELSE cc[1]

---------------------------------------------------------------------------
\* createCubes: the cell at forEach index i (0-based), with its three draws

RandomType(r) == IF r > Half THEN "collapse" ELSE "expand"

RandomDirection(r) == IF r > Half THEN "up" ELSE "down"

SpawnDelayOf(r) == r * 3

NewCube(i, rSpawn, rType, rDir) ==
    LET x == i \div gridSize
        z == i % gridSize
    IN  [x |-> x, z |-> z,
         highlightTime |-> (x * 2 + z * 3) * Half,
         isCollapsing |-> FALSE, collapseProgress |-> 0,
         isHidden |-> FALSE, hideStartTime |-> 0,
         spawnDelay |-> SpawnDelayOf(rSpawn),
         hasSpawned |-> FALSE, isGrowing |-> FALSE, growProgress |-> 0,
         animationType |-> RandomType(rType),
         expandDirection |-> RandomDirection(rDir),
         isRetracting |-> FALSE, isHovered |-> FALSE,
         visible |-> FALSE,
         scaleY |-> One * One, posY |-> 0,
         opacity |-> 0, color |-> White, wireColor |-> White]

\* the possible results of createCubes for the tracked cells idx
CreateCubes(idx) ==
    LET n == Len(idx)
        D == RandomDraws \X RandomDraws \X RandomDraws
    IN  { [k \in 1..n |-> NewCube(idx[k], d[k][1], d[k][2], d[k][3])] : d \in [1..n -> D] }

---------------------------------------------------------------------------
\* animate: one cell's processing in one frame. c is the cell, id its index,
\* t the clock after this frame's advance, hov the hover target, col the
\* frame's palette. Each stage yields the set of possible results (one per
\* outcome of the Math.random() calls it makes).

\* variant: spawns on the frame whose clock equals the delay
SpawnReadyAtDelay(t, c) == t >= c.spawnDelay

\* if (this.time > cube.userData['spawnDelay'])
SpawnReady(t, c) == t > c.spawnDelay

\* variant: reappears on the frame whose elapsed time equals the threshold
HiddenReadyAtThreshold(t, c, r) == (t - c.hideStartTime) >= HideBase + 2 * r

\* if (timeSinceHidden > 2 + Math.random() * 2), r the draw
HiddenReady(t, c, r) == (t - c.hideStartTime) > HideBase + 2 * r

\* variant: the spawn branch forgets hasSpawned
SpawnUnmarked(c) ==
    [c EXCEPT !.isGrowing = TRUE, !.growProgress = 0, !.visible = TRUE]

\* variant: the spawn branch leaves the cell invisible
SpawnInvisible(c) ==
    [c EXCEPT !.hasSpawned = TRUE, !.isGrowing = TRUE, !.growProgress = 0]

\* hasSpawned / isGrowing / growProgress / visible of the spawn branch
Spawn(c) ==
    [c EXCEPT !.hasSpawned = TRUE, !.isGrowing = TRUE, !.growProgress = 0,
              !.visible = TRUE]

\* isHidden / isGrowing / growProgress / visible of the reappear branch
Regrow(c) ==
    [c EXCEPT !.isHidden = FALSE, !.isGrowing = TRUE, !.growProgress = 0,
              !.visible = TRUE]

\* progress after one step, clamped to 1
Clamp(p) == IF p >= One THEN One ELSE p

\* variant: the growing block without the clamp to 1
GrowStageUnclamped(c, ts, col) ==
    [c EXCEPT !.growProgress = @ + GrowStep,
              !.isGrowing = ~(c.growProgress + GrowStep >= One),
              !.scaleY = ts * (c.growProgress + GrowStep), !.posY = 0,
              !.opacity = 0, !.color = col.fill, !.wireColor = col.wireframe]

\* variant: the growing block does not advance the progress
GrowStageStalled(c, ts, col) ==
    [c EXCEPT !.scaleY = ts * c.growProgress, !.posY = 0,
              !.opacity = 0, !.color = col.fill, !.wireColor = col.wireframe]

\* the growing block; ts is the frame's targetScale
GrowStage(c, ts, col) ==
    [c EXCEPT !.growProgress = Clamp(@ + GrowStep),
              !.isGrowing = ~(c.growProgress + GrowStep >= One),
              !.scaleY = ts * Clamp(c.growProgress + GrowStep), !.posY = 0,
              !.opacity = 0, !.color = col.fill, !.wireColor = col.wireframe]

\* variant: hideStartTime is read from a clock that may run a frame ahead
HideWallClock(c, t, p) ==
    { [c EXCEPT !.isCollapsing = FALSE, !.collapseProgress = p,
                !.isHidden = TRUE, !.hideStartTime = t + late, !.visible = FALSE,
                !.animationType = RandomType(rType),
                !.expandDirection = RandomDirection(rDir)]
      : rType \in RandomDraws, rDir \in RandomDraws, late \in {0, TimeStep} }

\* the end of a collapse or retract: hidden, with the next cycle's draws
Hide(c, t, p) ==
    { [c EXCEPT !.isCollapsing = FALSE, !.collapseProgress = p,
                !.isHidden = TRUE, !.hideStartTime = t, !.visible = FALSE,
                !.animationType = RandomType(rType),
                !.expandDirection = RandomDirection(rDir)]
      : rType \in RandomDraws, rDir \in RandomDraws }

\* opacity and colours of a collapsing cell
CollapseLook(c, col) ==
    [c EXCEPT !.opacity = HighlightOpacity, !.color = col.highlightFill,
              !.wireColor = col.wireframe]

\* variant: the shrink hides only once progress exceeds 1
ShrinkStageLate(c, t, ts, col, p) ==
    IF p > One
    THEN Hide(c, t, p)
    ELSE { CollapseLook([c EXCEPT !.collapseProgress = p,
                                  !.scaleY = ts * (One - p),
                                  !.posY = 0], col) }

\* animationType === 'collapse'; p is collapseProgress after its increment
ShrinkStage(c, t, ts, col, p) ==
    IF p >= One
    THEN Hide(c, t, p)
    ELSE { CollapseLook([c EXCEPT !.collapseProgress = p,
                                  !.scaleY = ts * (One - p),
                                  !.posY = 0], col) }

\* variant: the offset ignores expandDirection
DirectedUp(c, off) == off

\* the sign the stored expandDirection gives the y-offset
Directed(c, off) == IF c.expandDirection = "up" THEN off ELSE -off

\* the first phase of 'expand': scale.y = sy, offset by half the stretch
Stretch(c, ts, p, sy) ==
    [c EXCEPT !.collapseProgress = p, !.scaleY = sy,
              !.posY = Directed(c, (sy - ts * One) \div 2)]

\* variant: the retract offset shrinks with the progress
RetractShrinking(c, ts, ms, p) ==
    [c EXCEPT !.collapseProgress = p, !.scaleY = ms * (One - p),
              !.posY = Directed(c, ((ms - ts) * (One - p)) \div 2)]

\* the second phase of 'expand', maxScale = ms
Retract(c, ts, ms, p) ==
    [c EXCEPT !.collapseProgress = p, !.scaleY = ms * (One - p),
              !.posY = Directed(c, ((ms - ts) * One) \div 2 + (ms * p) \div 2)]

\* animationType === 'expand'; p is collapseProgress after its increment
ExpandStage(c, t, ts, col, p) ==
    IF ~c.isRetracting
    THEN { CollapseLook(IF p >= Half
                        THEN [c EXCEPT !.isRetracting = TRUE, !.collapseProgress = 0]
                        ELSE Stretch(c, ts, p,
                                     ts * One + ((ts + ExpandExtra) - ts) * (p * 2)),
                        col) }
    ELSE IF p >= One
         THEN Hide([c EXCEPT !.isRetracting = FALSE], t, p)
         ELSE { CollapseLook(Retract(c, ts, ts + ExpandExtra, p), col) }

\* the collapsing block: collapseProgress += 0.02, then the sub-mode
CollapseStage(c, t, ts, col) ==
    IF c.animationType = "collapse"
    THEN ShrinkStage(c, t, ts, col, c.collapseProgress + CollapseStep)
    ELSE ExpandStage(c, t, ts, col, c.collapseProgress + CollapseStep)

\* variant: the trigger does not look at the hover target
TriggerHovered(t, c, hov) ==
    /\ HighlightCycle(t, c) > TriggerLow
    /\ HighlightCycle(t, c) < TriggerHigh

\* isHighlighted && highlightCycle > 0.3 && highlightCycle < 0.35
Trigger(t, c, hov) ==
    /\ IsHighlighted(t, c, hov)
    /\ HighlightCycle(t, c) > TriggerLow
    /\ HighlightCycle(t, c) < TriggerHigh

\* variant: the hovered cell gets no appearance of its own
IdleLookNoHover(c, hovered, highlighted, col) ==
    IF highlighted
    THEN [c EXCEPT !.opacity = HighlightOpacity, !.color = col.highlightFill,
                   !.wireColor = col.wireframe]
    ELSE [c EXCEPT !.opacity = 0, !.color = col.fill,
                   !.wireColor = col.wireframe]

\* "Normal highlighting (either from cycle or hover)" of a cell that the
\* trigger has not just set collapsing
IdleLook(c, hovered, highlighted, col) ==
    IF hovered
    THEN [c EXCEPT !.opacity = HoverOpacity, !.color = col.fillHover,
                   !.wireColor = col.wireframeHover]
    ELSE IF highlighted
    THEN [c EXCEPT !.opacity = HighlightOpacity, !.color = col.highlightFill,
                   !.wireColor = col.wireframe]
    ELSE [c EXCEPT !.opacity = 0, !.color = col.fill,
                   !.wireColor = col.wireframe]

\* "Normal wave animation" to the end of the callback
IdleStage(c, id, t, ts, hov, col) ==
    IF Trigger(t, c, hov)
    THEN [c EXCEPT !.scaleY = ts * One, !.posY = 0,
                   !.isCollapsing = TRUE, !.collapseProgress = 0]
    ELSE IdleLook([c EXCEPT !.scaleY = ts * One, !.posY = 0],
                  hov = id, IsHighlighted(t, c, hov), col)

\* from the growing block on, for a cell that is spawned and not hidden
Shown(c, id, t, ts, hov, col) ==
    IF c.isGrowing THEN { GrowStage(c, ts, col) }
    ELSE IF c.isCollapsing THEN CollapseStage(c, t, ts, col)
    ELSE { IdleStage(c, id, t, ts, hov, col) }

\* a stage's results, each paired with the draw of the reappear check
WithDraw(cells, d) == { [cube |-> c, draw |-> d] : c \in cells }

\* the draws the reappear check may make: one of RandomDraws for a hidden
\* cell, none otherwise
HideDraws(c) == IF c.isHidden THEN { <<r>> : r \in RandomDraws } ELSE { << >> }

\* from the hidden check on, for a cell that has spawned
Spawned(c, id, t, hov, col) ==
    UNION { IF d # << >> /\ ~HiddenReady(t, c, d[1])
            THEN WithDraw({c}, d)
            ELSE WithDraw(Shown(IF c.isHidden THEN Regrow(c) ELSE c, id, t,
                                TargetScale(c.x, c.z, t), hov, col), d)
            : d \in HideDraws(c) }

\* the whole forEach callback for one cell
CubeFrame(c, id, t, hov, col) ==
    IF ~c.hasSpawned /\ ~SpawnReady(t, c)
    THEN WithDraw({c}, << >>)
    ELSE Spawned(IF c.hasSpawned THEN c ELSE Spawn(c), id, t, hov, col)

\* the combinations of the cells' results
Combine(outs) ==
    { f \in [DOMAIN outs -> UNION { outs[k] : k \in DOMAIN outs }] :
        \A k \in DOMAIN outs : f[k] \in outs[k] }

\* this.cubes.forEach(...): the cells do not read one another
CubesFrame(cs, t, hov, col) ==
    Combine([k \in 1..Len(cs) |-> CubeFrame(cs[k], k, t, hov, col)])

---------------------------------------------------------------------------
\* The component and the window

Init ==
    /\ phase = "constructed"
    /\ canvasContainer \in BOOLEAN
    /\ theme \in {"light", "dark"}
    /\ scene = << >>
    /\ renderer = Undefined
    /\ rendererSize = Undefined
    /\ cubes = << >>
    /\ hoveredCube = 0
    /\ mouse = "inside"
    /\ animationId = 0
    /\ rafPending = {}
    /\ time = 0
    /\ hideDraw = << >>
    /\ currentColors = << >>
    /\ removeResizeListener = FALSE
    /\ removeMouseMoveListener = FALSE
    /\ listeners = {}
    /\ calls = [destroy |-> 0, cancel |-> 0, removeResize |-> 0,
                removeMouseMove |-> 0, rendererDispose |-> 0, cubeDispose |-> 0]
    /\ errors = {}

\* the handle requestAnimationFrame returns for the request made at clock t
NextHandle(t) == t \div TimeStep + 1

\* variant: animate requests two callbacks and keeps the handle of one
AnimateTwoRequests(cs, cc, rend, pend) ==
    LET id == NextHandle(time)
        t == time + TimeStep
    IN  /\ animationId' = id
        /\ rafPending' = pend \cup {id, -id}
        /\ time' = t
        /\ \E f \in CubesFrame(cs, t, hoveredCube, FrameColors(cc)) :
              /\ cubes' = [k \in 1..Len(cs) |-> f[k].cube]
              /\ hideDraw' = [k \in 1..Len(cs) |-> f[k].draw]
        /\ errors' = IF rend = Undefined THEN errors \cup {"animate"} ELSE errors

\* variant: animate keeps the first handle instead of the latest
AnimateFirstHandle(cs, cc, rend, pend) ==
    LET id == NextHandle(time)
        t == time + TimeStep
    IN  /\ animationId' = IF animationId = 0 THEN id ELSE animationId
        /\ rafPending' = pend \cup {id}
        /\ time' = t
        /\ \E f \in CubesFrame(cs, t, hoveredCube, FrameColors(cc)) :
              /\ cubes' = [k \in 1..Len(cs) |-> f[k].cube]
              /\ hideDraw' = [k \in 1..Len(cs) |-> f[k].draw]
        /\ errors' = IF rend = Undefined THEN errors \cup {"animate"} ELSE errors

\* animate(), run on cubes cs with palette cache cc, renderer rend and the
\* window's pending callbacks pend; it reads this.time and this.hoveredCube
Animate(cs, cc, rend, pend) ==
    LET id == NextHandle(time)
        t == time + TimeStep
    IN  /\ animationId' = id
        /\ rafPending' = pend \cup {id}
        /\ time' = t
        /\ \E f \in CubesFrame(cs, t, hoveredCube, FrameColors(cc)) :
              /\ cubes' = [k \in 1..Len(cs) |-> f[k].cube]
              /\ hideDraw' = [k \in 1..Len(cs) |-> f[k].draw]
        /\ errors' = IF rend = Undefined THEN errors \cup {"animate"} ELSE errors

\* ngAfterViewInit with tracked cells idx: initThree, setupInteraction, animate
NgAfterViewInit(idx) ==
    /\ phase = "constructed"
    /\ phase' = "viewInit"
    /\ IF canvasContainer
       THEN /\ scene' = <<[background |-> Background(theme)]>>
            /\ renderer' = "live"
            /\ rendererSize' \in ContainerSizes
            /\ currentColors' = <<Palette(theme)>>
            /\ removeResizeListener' = TRUE
            /\ listeners' = listeners \cup {"resize", "mousemove"}
       ELSE /\ UNCHANGED <<scene, renderer, rendererSize, currentColors,
                           removeResizeListener>>
            /\ listeners' = listeners \cup {"mousemove"}
    /\ removeMouseMoveListener' = TRUE
    /\ \E cs \in (IF canvasContainer THEN CreateCubes(idx) ELSE {cubes}) :
          Animate(cs, currentColors', renderer', rafPending)
    /\ UNCHANGED <<canvasContainer, theme, hoveredCube, mouse, calls>>

\* a pending animation-frame callback runs, while fewer than maxFrames have
AnimationFrame(maxFrames) ==
    /\ time < maxFrames * TimeStep
    /\ \E h \in rafPending :
          Animate(cubes, currentColors, renderer, rafPending \ {h})
    /\ UNCHANGED <<phase, canvasContainer, theme, scene, renderer, rendererSize,
                   hoveredCube, mouse, currentColors, removeResizeListener,
                   removeMouseMoveListener, listeners, calls>>

\* variant: the previous hover target keeps its flag
HoverNoClear(cs, hov, hit) ==
    IF hit # 0 /\ ~cs[hit].isCollapsing
    THEN [cs EXCEPT ![hit].isHovered = TRUE]
    ELSE cs

\* variant: the flags are cleared and set whether or not the cell collapses
HoverAlways(cs, hov, hit) ==
    LET cleared == IF hov # 0
                   THEN [cs EXCEPT ![hov].isHovered = FALSE]
                   ELSE cs
    IN  IF hit # 0
        THEN [cleared EXCEPT ![hit].isHovered = TRUE]
        ELSE cleared

\* "Clear previous hover" and "Set new hover", hit the first intersected
\* cell (0 for none)
Hover(cs, hov, hit) ==
    LET cleared == IF hov # 0 /\ ~cs[hov].isCollapsing
                   THEN [cs EXCEPT ![hov].isHovered = FALSE]
                   ELSE cs
    IN  IF hit # 0 /\ ~cleared[hit].isCollapsing
        THEN [cleared EXCEPT ![hit].isHovered = TRUE]
        ELSE cleared

\* handleMouseMove: inside says whether the pointer is within the canvas
\* rect, hit is the raycaster's first intersection
HandleMouseMove(inside, hit) ==
    /\ "mousemove" \in listeners
    /\ IF renderer = Undefined
       THEN /\ errors' = errors \cup {"mousemove"}
            /\ UNCHANGED <<mouse, cubes, hoveredCube>>
       ELSE /\ mouse' = IF inside THEN "inside" ELSE "outside"
            /\ inside \/ hit = 0
            /\ cubes' = Hover(cubes, hoveredCube, hit)
            /\ hoveredCube' = hit
            /\ UNCHANGED errors
    /\ UNCHANGED <<phase, canvasContainer, theme, scene, renderer, rendererSize,
                   animationId, rafPending, time, hideDraw, currentColors,
                   removeResizeListener, removeMouseMoveListener, listeners, calls>>

\* handleResize
HandleResize ==
    /\ "resize" \in listeners
    /\ \E sz \in ContainerSizes : rendererSize' = sz
    /\ UNCHANGED <<phase, canvasContainer, theme, scene, renderer, cubes,
                   hoveredCube, mouse, animationId, rafPending, time, hideDraw,
                   currentColors, removeResizeListener, removeMouseMoveListener,
                   listeners, calls, errors>>

\* variant: the effect updates the background but not the cached palette
ThemeToggleUncached ==
    /\ theme' = IF theme = "light" THEN "dark" ELSE "light"
    /\ IF phase # "destroyed" /\ scene # << >>
       THEN scene' = <<[background |-> Background(theme')]>>
       ELSE UNCHANGED scene
    /\ UNCHANGED <<phase, canvasContainer, renderer, rendererSize, cubes,
                   hoveredCube, mouse, animationId, rafPending, time, hideDraw,
                   currentColors, removeResizeListener, removeMouseMoveListener,
                   listeners, calls, errors>>

\* themeService.toggle(), and the constructor's effect while the component lives
ThemeToggle ==
    /\ theme' = IF theme = "light" THEN "dark" ELSE "light"
    /\ IF phase # "destroyed" /\ scene # << >>
       THEN /\ scene' = <<[background |-> Background(theme')]>>
            /\ currentColors' = <<Palette(theme')>>
       ELSE UNCHANGED <<scene, currentColors>>
    /\ UNCHANGED <<phase, canvasContainer, renderer, rendererSize, cubes,
                   hoveredCube, mouse, animationId, rafPending, time, hideDraw,
                   removeResizeListener, removeMouseMoveListener, listeners,
                   calls, errors>>

\* variant: cancels only a handle that is still pending
GuardFramePending(id) == id # 0 /\ id \in rafPending

\* variant: no presence check before renderer.dispose()
GuardRendererMissing(r) == TRUE

\* the presence checks of ngOnDestroy
GuardFrame(id) == id # 0

GuardResize(rr) == rr

GuardMouseMove(rm) == rm

GuardRenderer(r) == r # Undefined

\* the TypeErrors of calling an undefined closure, or dispose on an undefined
\* renderer, behind the guards above
DestroyErrors ==
    (IF GuardResize(removeResizeListener) /\ ~removeResizeListener
     THEN {"removeResizeListener"} ELSE {})
    \cup (IF GuardMouseMove(removeMouseMoveListener) /\ ~removeMouseMoveListener
          THEN {"removeMouseMoveListener"} ELSE {})
    \cup (IF GuardRenderer(renderer) /\ renderer = Undefined
          THEN {"dispose"} ELSE {})

\* ngOnDestroy
NgOnDestroy ==
    /\ calls.destroy < MaxDestroys
    /\ phase' = "destroyed"
    /\ rafPending' = IF GuardFrame(animationId)
                     THEN rafPending \ {animationId} ELSE rafPending
    /\ listeners' = (listeners \ (IF GuardResize(removeResizeListener)
                                  THEN {"resize"} ELSE {}))
                       \ (IF GuardMouseMove(removeMouseMoveListener)
                          THEN {"mousemove"} ELSE {})
    /\ renderer' = IF GuardRenderer(renderer) /\ renderer # Undefined
                   THEN "disposed" ELSE renderer
    /\ errors' = errors \cup DestroyErrors
    /\ calls' = [destroy |-> calls.destroy + 1,
                 cancel |-> calls.cancel + (IF GuardFrame(animationId) THEN 1 ELSE 0),
                 removeResize |-> calls.removeResize
                                    + (IF GuardResize(removeResizeListener) THEN 1 ELSE 0),
                 removeMouseMove |-> calls.removeMouseMove
                                    + (IF GuardMouseMove(removeMouseMoveListener) THEN 1 ELSE 0),
                 rendererDispose |-> calls.rendererDispose
                                    + (IF GuardRenderer(renderer) THEN 1 ELSE 0),
                 cubeDispose |-> calls.cubeDispose + Len(cubes)]
    /\ UNCHANGED <<canvasContainer, theme, scene, rendererSize, cubes, hoveredCube,
                   mouse, animationId, time, hideDraw, currentColors,
                   removeResizeListener, removeMouseMoveListener>>

\* the component's whole life, over a few frames
Next ==
    \/ NgAfterViewInit(LifeCells)
    \/ AnimationFrame(LifeFrames)
    \/ \E inside \in BOOLEAN : \E hit \in 0..Len(cubes) : HandleMouseMove(inside, hit)
    \/ HandleResize
    \/ ThemeToggle
    \/ NgOnDestroy

Spec == Init /\ [][Next]_vars

\* the long animation run: frames only
NextRun ==
    \/ NgAfterViewInit(RunCells)
    \/ AnimationFrame(MaxFrames)

SpecRun == Init /\ [][NextRun]_vars

\* a mounted component under frames, pointer moves and theme changes
InitEvents == Init /\ canvasContainer /\ theme = "light"

NextEvents ==
    \/ NgAfterViewInit(RunCells)
    \/ AnimationFrame(EventFrames)
    \/ \E inside \in BOOLEAN : \E hit \in 0..Len(cubes) : HandleMouseMove(inside, hit)
    \/ ThemeToggle

SpecEvents == InitEvents /\ [][NextEvents]_vars

\* a mounted component with two cells under frames and pointer moves
NextHover ==
    \/ NgAfterViewInit(HoverCells)
    \/ AnimationFrame(HoverFrames)
    \/ \E inside \in BOOLEAN : \E hit \in 0..Len(cubes) : HandleMouseMove(inside, hit)

SpecHover == InitEvents /\ [][NextHover]_vars

\* a pending animation-frame callback runs: the step that advances the clock
FrameRuns ==
    /\ rafPending # {}
    /\ time < LiveFrames * TimeStep
    /\ time' = time + TimeStep

\* a mounted component under frames and pointer moves over the canvas, onto
\* the cell or past it, where the window eventually runs a callback that
\* stays pending
NextLive ==
    \/ NgAfterViewInit(RunCells)
    \/ AnimationFrame(LiveFrames)
    \/ \E hit \in 0..Len(cubes) : HandleMouseMove(TRUE, hit)

SpecLive == InitEvents /\ [][NextLive]_vars /\ WF_time(FrameRuns)

---------------------------------------------------------------------------
\* Properties

\* a step in which a frame ran
FrameStep == time' # time

\* a step in which ngOnDestroy ran
DestroyStep == calls'.destroy = calls.destroy + 1

\* the cell as createCubes leaves it, given its later self
Fresh(d) ==
    [d EXCEPT !.hasSpawned = FALSE, !.isGrowing = FALSE, !.growProgress = 0,
              !.isCollapsing = FALSE, !.collapseProgress = 0, !.isHidden = FALSE,
              !.hideStartTime = 0, !.isRetracting = FALSE, !.isHovered = FALSE,
              !.visible = FALSE, !.scaleY = One * One, !.posY = 0,
              !.opacity = 0, !.color = White, !.wireColor = White]

\* cell k before a step (the step of ngAfterViewInit creates it)
Pre(k) == IF k \in DOMAIN cubes THEN cubes[k] ELSE Fresh(cubes'[k])

\* the mode flags of a cell that are set
ModeFlags(c) ==
    (IF ~c.hasSpawned THEN {"not-yet-spawned"} ELSE {})
    \cup (IF c.isGrowing THEN {"growing"} ELSE {})
    \cup (IF c.isCollapsing THEN {"collapsing"} ELSE {})
    \cup (IF c.isHidden THEN {"hidden"} ELSE {})

IsIdle(c) == ModeFlags(c) = {}

\* C1: in every reachable state, under frames, pointer moves and theme
\* changes, no cell has two of the flags not-yet-spawned (hasSpawned = false),
\* isGrowing, isCollapsing, isHidden set; a cell with none of them is idle, so
\* every cell is in exactly one of the five modes.
C1_ExactlyOneMode ==
    \A k \in DOMAIN cubes : Cardinality(ModeFlags(cubes[k])) <= 1

\* C1 witness: a cell that was hidden is growing again while it is the hover
\* target and the theme has been switched to dark.
C1_Witness ==
    \E k \in DOMAIN cubes :
        /\ cubes[k].isGrowing
        /\ cubes[k].hideStartTime > 0
        /\ hoveredCube = k
        /\ theme = "dark"

\* C2: once ngOnDestroy has run, no animation-frame callback is pending and
\* neither listener is registered, and no later step advances the clock or
\* updates a cell.
C2_TeardownStopsLoop ==
    /\ [](phase = "destroyed" => rafPending = {} /\ listeners = {})
    /\ [][phase = "destroyed" => time' = time /\ cubes' = cubes]_vars

\* C2 witness: the component was torn down between two frames of a running
\* loop, after a full setup.
C2_Witness ==
    /\ phase = "destroyed"
    /\ renderer = "disposed"
    /\ time >= 2 * TimeStep
    /\ calls.cancel = 1

\* the program and window state ngOnDestroy could touch
Resources ==
    <<scene, renderer, rendererSize, cubes, hoveredCube, mouse, animationId,
      rafPending, time, currentColors, removeResizeListener,
      removeMouseMoveListener, listeners, errors>>

\* C3 as stated: a second ngOnDestroy invokes neither cancelAnimationFrame nor
\* either listener removal again, and leaves the state as the first left it.
C3_SecondCallInvokesNothing ==
    [][phase = "destroyed" /\ DestroyStep =>
          /\ calls'.cancel = calls.cancel
          /\ calls'.removeResize = calls.removeResize
          /\ calls'.removeMouseMove = calls.removeMouseMove
          /\ Resources' = Resources]_vars

\* C3 amended: a second ngOnDestroy throws nothing and leaves the pending
\* callbacks, the registered listeners, the renderer and the component's
\* fields as the first call left them; but it invokes cancelAnimationFrame
\* again whenever animationId is set, and each removal closure again whenever
\* that closure is set (neither is ever cleared).
C3_SecondCallChangesNothing ==
    [][phase = "destroyed" /\ DestroyStep =>
          /\ Resources' = Resources
          /\ calls'.cancel = calls.cancel + (IF animationId # 0 THEN 1 ELSE 0)
          /\ calls'.removeResize
               = calls.removeResize + (IF removeResizeListener THEN 1 ELSE 0)
          /\ calls'.removeMouseMove
               = calls.removeMouseMove + (IF removeMouseMoveListener THEN 1 ELSE 0)]_vars

\* C3 witness: ngOnDestroy ran twice after a full setup, and the frame
\* cancellation and both removals were each invoked twice.
C3_Witness ==
    /\ calls.destroy = 2
    /\ renderer = "disposed"
    /\ calls.cancel = 2
    /\ calls.removeResize = 2
    /\ calls.removeMouseMove = 2

\* C4 as stated: after ngAfterViewInit without a canvasContainer nothing
\* exists, no listener is registered, no frame callback is pending and no
\* frame or pointer event throws.
C4_SetupWithoutContainerIsNoop ==
    (phase = "viewInit" /\ ~canvasContainer) =>
        /\ scene = << >> /\ renderer = Undefined /\ cubes = << >>
        /\ listeners = {}
        /\ rafPending = {}
        /\ errors = {}

\* C5: ngOnDestroy, in whatever state it is called, throws nothing; it calls
\* renderer.dispose() only if a renderer exists, disposes exactly the cells
\* that exist, cancels a frame only if one was requested and calls a removal
\* closure only if it is set; called before any setup it changes nothing.
C5_TeardownSafe ==
    [][DestroyStep =>
          /\ errors' = errors
          /\ calls'.rendererDispose
               = calls.rendererDispose + (IF renderer = Undefined THEN 0 ELSE 1)
          /\ (renderer = Undefined => renderer' = Undefined)
          /\ calls'.cubeDispose = calls.cubeDispose + Len(cubes)
          /\ (animationId = 0 => calls'.cancel = calls.cancel)
          /\ (~removeResizeListener => calls'.removeResize = calls.removeResize)
          /\ (~removeMouseMoveListener
                => calls'.removeMouseMove = calls.removeMouseMove)
          /\ (phase = "constructed" =>
                /\ Resources' = Resources
                /\ calls' = [calls EXCEPT !.destroy = @ + 1])]_vars

\* C5 witness: ngOnDestroy has run after a setup that found no container (no
\* renderer, no cells), cancelling the frame that setup had requested.
C5_Witness ==
    /\ phase = "destroyed"
    /\ ~canvasContainer
    /\ animationId # 0
    /\ renderer = Undefined
    /\ calls.cancel >= 1
    /\ calls.rendererDispose = 0

\* C6 as stated: a cell is spawned (and was made visible) by the end of the
\* first frame whose clock is at least its spawnDelay, equality included.
C6_SpawnsAtDelay ==
    \A k \in DOMAIN cubes : time >= cubes[k].spawnDelay => cubes[k].hasSpawned

\* C6 amended: spawnDelay lies in [0,3); the cell stays invisible and
\* not-yet-spawned on every frame whose clock is at most its spawnDelay
\* (a frame whose clock equals the delay included), and it is visible and
\* growing at the end of the first frame whose clock exceeds the delay.
C6_SpawnsAfterDelay ==
    \A k \in DOMAIN cubes :
        LET c == cubes[k]
        IN  /\ 0 <= c.spawnDelay /\ c.spawnDelay < 3 * One
            /\ (time <= c.spawnDelay =>
                  ~c.hasSpawned /\ ~c.visible /\ ModeFlags(c) = {"not-yet-spawned"})
            /\ (time > c.spawnDelay => c.hasSpawned)
            /\ (time > c.spawnDelay /\ time - TimeStep <= c.spawnDelay =>
                  c.visible /\ c.isGrowing)

\* C6 witness: the frame just run is the first whose clock exceeds a positive
\* spawnDelay that the previous frame's clock equalled; the cell is visible
\* and growing.
C6_Witness ==
    \E k \in DOMAIN cubes :
        /\ cubes[k].spawnDelay > 0
        /\ time - TimeStep = cubes[k].spawnDelay
        /\ cubes[k].visible
        /\ cubes[k].isGrowing

Min(a, b) == IF a < b THEN a ELSE b

\* C7: a cell enters growing only from not-yet-spawned or hidden, with
\* progress 0 advanced by the first 0.03 in that same frame; on every later
\* frame progress grows by exactly 0.03 until the sum reaches 1, when it is
\* clamped to 1 and the cell is idle; on each of these frames scale.y is the
\* frame's target scale times the progress, the y-offset is 0 and the fill
\* opacity 0; a growing cell enters no other mode.
C7_Growing ==
    [][FrameStep =>
        \A k \in DOMAIN cubes' :
            LET c == Pre(k)
                d == cubes'[k]
                entering == ~c.isGrowing /\ d.isGrowing
            IN  /\ entering =>
                      /\ ~c.hasSpawned \/ c.isHidden
                      /\ d.growProgress = GrowStep
                /\ c.isGrowing =>
                      /\ d.growProgress = Min(c.growProgress + GrowStep, One)
                      /\ d.growProgress > c.growProgress
                      /\ d.isGrowing <=> c.growProgress + GrowStep < One
                      /\ ModeFlags(d) \subseteq {"growing"}
                      /\ ~d.isGrowing => d.growProgress = One /\ IsIdle(d)
                /\ (c.isGrowing \/ entering) =>
                      /\ d.scaleY = TargetScale(d.x, d.z, time') * d.growProgress
                      /\ d.posY = 0
                      /\ d.opacity = 0
                      /\ d.visible]_vars

\* C7 witness: a cell that was hidden has grown back to idle, its progress
\* clamped at 1.
C7_Witness ==
    \E k \in DOMAIN cubes :
        /\ cubes[k].hideStartTime > 0
        /\ IsIdle(cubes[k])
        /\ cubes[k].growProgress = One

\* C8: a cell enters collapsing with progress 0; with animationType collapse
\* its progress grows by 0.02 per frame, it stays collapsing and visible while
\* the progress is below 1, and on the first frame where the progress reaches
\* 1 it is hidden, invisible and no longer collapsing, with hideStartTime the
\* clock of that frame.
C8_Shrinking ==
    [][FrameStep =>
        \A k \in DOMAIN cubes :
            LET c == cubes[k]
                d == cubes'[k]
                p == c.collapseProgress + CollapseStep
            IN  /\ (~c.isCollapsing /\ d.isCollapsing) =>
                      d.collapseProgress = 0 /\ d.visible
                /\ (c.isCollapsing /\ c.animationType = "collapse") =>
                      IF p >= One
                      THEN /\ ModeFlags(d) = {"hidden"}
                           /\ ~d.visible
                           /\ d.hideStartTime = time'
                      ELSE /\ ModeFlags(d) = {"collapsing"}
                           /\ d.visible
                           /\ d.collapseProgress = p
                           /\ d.collapseProgress > c.collapseProgress
                           /\ d.animationType = "collapse"]_vars

\* C8 witness: a cell has just been hidden by a shrinking collapse (1 time
\* unit after its trigger), hideStartTime being this frame's clock.
C8_Witness ==
    \E k \in DOMAIN cubes :
        /\ cubes[k].isHidden
        /\ ~cubes[k].visible
        /\ cubes[k].hideStartTime = time
        /\ HighlightCycle(time, cubes[k]) <= TriggerHigh + One

ExpandCommon(c, d, T) ==
    LET p == c.collapseProgress + CollapseStep
    IN  /\ d.isCollapsing =>
              /\ d.expandDirection = c.expandDirection
              /\ c.expandDirection = "up" => d.posY >= 0
              /\ c.expandDirection = "down" => d.posY <= 0
        /\ ~c.isRetracting =>
              IF p >= Half
              THEN d.isCollapsing /\ d.isRetracting /\ d.collapseProgress = 0
              ELSE /\ d.isCollapsing /\ ~d.isRetracting /\ d.collapseProgress = p
                   /\ d.scaleY >= c.scaleY
                   /\ d.scaleY >= T * One
                   /\ d.scaleY <= (T + ExpandExtra) * One
        /\ c.isRetracting =>
              IF p >= One
              THEN ModeFlags(d) = {"hidden"} /\ ~d.visible /\ ~d.isRetracting
              ELSE /\ d.isCollapsing /\ d.isRetracting /\ d.collapseProgress = p
                   /\ d.scaleY >= 0
                   /\ d.scaleY <= (T + ExpandExtra) * One

\* C10 as stated: in the expand sub-mode scale.y never decreases from frame
\* to frame before retracting, never increases from frame to frame while
\* retracting, and the y-offset has the sign of expandDirection.
C10_ExpandThenRetract ==
    [][FrameStep =>
        \A k \in DOMAIN cubes :
            LET c == cubes[k]
                d == cubes'[k]
            IN  (c.isCollapsing /\ c.animationType = "expand") =>
                  /\ ExpandCommon(c, d, TargetScale(c.x, c.z, time'))
                  /\ (c.isRetracting /\ d.isRetracting) => d.scaleY <= c.scaleY]_vars

\* C10 amended: as stated, except that the frame that switches to retracting
\* leaves scale.y at its last expanding value (at most target + 4.8), and the
\* first retracting frame sets it to (target + 5) * 0.98, which is larger;
\* scale.y never increases from frame to frame from the second retracting
\* frame on.
C10_ExpandThenRetractFromSecond ==
    [][FrameStep =>
        \A k \in DOMAIN cubes :
            LET c == cubes[k]
                d == cubes'[k]
            IN  (c.isCollapsing /\ c.animationType = "expand") =>
                  /\ ExpandCommon(c, d, TargetScale(c.x, c.z, time'))
                  /\ (c.isRetracting /\ d.isRetracting) =>
                        IF c.collapseProgress = 0
                        THEN d.scaleY > c.scaleY
                        ELSE d.scaleY <= c.scaleY]_vars

\* C10 witness: a cell expanding downwards is on its last retracting frame,
\* its y-offset negative.
C10_Witness ==
    \E k \in DOMAIN cubes :
        /\ cubes[k].isCollapsing
        /\ cubes[k].isRetracting
        /\ cubes[k].collapseProgress = One - CollapseStep
        /\ cubes[k].expandDirection = "down"
        /\ cubes[k].posY < 0

\* the palette a frame reads
ColorsNow == FrameColors(currentColors)

\* the hover appearance under palette col
HoverLook(d, col) ==
    /\ d.opacity = HoverOpacity
    /\ d.color = col.fillHover
    /\ d.wireColor = col.wireframeHover

\* a non-hover appearance under palette col
PlainLook(d, col) ==
    /\ d.opacity \in {0, HighlightOpacity}
    /\ d.wireColor = col.wireframe

BaseColors(d, col) == d.color = col.fill /\ d.wireColor = col.wireframe

\* the colours of d are those of c
SameColors(c, d) == d.color = c.color /\ d.wireColor = c.wireColor

\* the scene background and the cached palette are those of the theme
ThemeApplied ==
    scene # << >> =>
        /\ scene[1].background = Background(theme)
        /\ currentColors = <<Palette(theme)>>

\* C12 as stated: the background is the theme's, and a frame gives every cell
\* that is neither the hover target nor highlighted on that frame the base
\* fill and base wireframe colour of the theme's palette, in whatever mode.
C12_AllCellsRecoloured ==
    /\ [](scene # << >> => scene[1].background = Background(theme))
    /\ [][FrameStep =>
          \A k \in DOMAIN cubes :
              (hoveredCube # k /\ ~IsHighlighted(time', cubes[k], hoveredCube))
                => BaseColors(cubes'[k], Palette(theme))]_vars

\* C12 amended: the background and the cached palette are always the current
\* theme's. A frame gives a cell that is neither the hover target nor
\* highlighted on that frame: the base fill and base wireframe colour if the
\* cell is growing (or starts to grow) or idle on that frame; highlightFill
\* and the base wireframe colour if it is collapsing and stays so; and no new
\* colours at all, so those of an earlier theme stay, if the cell is
\* not-yet-spawned or hidden at the end of the frame.
C12_ProcessedCellsRecoloured ==
    /\ []ThemeApplied
    /\ [][FrameStep =>
          \A k \in DOMAIN cubes :
              LET c == cubes[k]
                  d == cubes'[k]
                  col == Palette(theme)
              IN  (hoveredCube # k /\ ~IsHighlighted(time', c, hoveredCube)) =>
                    IF ~d.hasSpawned \/ d.isHidden
                    THEN SameColors(c, d)
                    ELSE IF c.isCollapsing
                    THEN d.color = col.highlightFill /\ d.wireColor = col.wireframe
                    ELSE BaseColors(d, col)]_vars

\* C12 witness: the theme is dark and frames have run since, while a cell
\* hidden under the light theme still has the light palette's colours.
C12_Witness ==
    \E k \in DOMAIN cubes :
        /\ theme = "dark"
        /\ cubes[k].isHidden
        /\ time >= cubes[k].hideStartTime + 2 * TimeStep
        /\ cubes[k].color = Palette("light").highlightFill
        /\ cubes[k].wireColor = Palette("light").wireframe

\* two results of a cell's frame were fed the same draws: the draw of the
\* reappear check, and the draws behind the next animationType and
\* expandDirection
SameDraws(a, b) ==
    /\ a.draw = b.draw
    /\ a.cube.animationType = b.cube.animationType
    /\ a.cube.expandDirection = b.cube.expandDirection

\* two results of createCubes were fed the same draws
SameCreateDraws(a, b) ==
    \A k \in DOMAIN a :
        /\ a[k].spawnDelay = b[k].spawnDelay
        /\ a[k].animationType = b[k].animationType
        /\ a[k].expandDirection = b[k].expandDirection

\* what a run shows of a cell
Shows(c) == <<c.scaleY, c.visible, c.color, c.wireColor>>

C14_CollapseOnlyFromIdle ==
    [][\A k \in DOMAIN cubes :
          LET c == cubes[k]
              d == cubes'[k]
          IN  (~c.isCollapsing /\ d.isCollapsing) =>
                /\ FrameStep
                /\ IsIdle(c)
                /\ hoveredCube = 0
                /\ HighlightCycle(time', c) > TriggerLow
                /\ HighlightCycle(time', c) < TriggerHigh
                /\ d.collapseProgress = 0
                /\ ModeFlags(d) = {"collapsing"}]_vars

\* C14 witness: with the pointer off-canvas and the dark theme, a cell has
\* just been set collapsing by a frame inside its trigger window.
C14_Witness ==
    \E k \in DOMAIN cubes :
        /\ cubes[k].isCollapsing
        /\ cubes[k].collapseProgress = 0
        /\ ~cubes[k].isRetracting
        /\ HighlightCycle(time, cubes[k]) > TriggerLow
        /\ HighlightCycle(time, cubes[k]) < TriggerHigh
        /\ mouse = "outside"
        /\ theme = "dark"

\* a step of the pointer-move handler, among frames, theme changes and setup
MouseStep == time' = time /\ theme' = theme /\ phase' = phase

\* what the pointer-move handler has no business with
BesidesPointer ==
    <<phase, canvasContainer, theme, scene, renderer, rendererSize, animationId,
      rafPending, time, hideDraw, currentColors, removeResizeListener,
      removeMouseMoveListener, listeners, calls>>

\* C15: a step of the pointer-move handler changes nothing but the pointer
\* coordinates, the hover target and isHovered flags: every cell keeps its
\* mode flags, progress counters, visibility, scale, position and every other
\* field, and a cell that is collapsing at the event keeps its isHovered flag
\* too, whether it is the previous hover target or the newly hit cell.
C15_PointerMoveFrame ==
    [][MouseStep =>
          /\ BesidesPointer' = BesidesPointer
          /\ DOMAIN cubes' = DOMAIN cubes
          /\ \A k \in DOMAIN cubes :
                LET c == cubes[k]
                    d == cubes'[k]
                IN  /\ d = [c EXCEPT !.isHovered = d.isHovered]
                    /\ c.isCollapsing => d.isHovered = c.isHovered]_vars

\* C15 witness: the pointer has hit a collapsing cell: the cell is the hover
\* target and its isHovered flag is still unset.
C15_Witness ==
    \E k \in DOMAIN cubes :
        /\ cubes[k].isCollapsing
        /\ cubes[k].collapseProgress > 0
        /\ hoveredCube = k
        /\ ~cubes[k].isHovered

\* the fields createCubes fixes for good
Identity(c) == <<c.x, c.z, c.highlightTime, c.spawnDelay>>

\* C16: in every state reached under frames, pointer moves and theme changes,
\* a cell is invisible exactly when it is not-yet-spawned or hidden, and so
\* visible exactly when it is growing, idle or collapsing; the grid holds,
\* from construction on, the same cells in the same order (the model tracks
\* RunCells of the gridSize * gridSize cells), each at its own grid
\* coordinates within the grid, and no step changes a cell's coordinates,
\* highlightTime or spawnDelay.
C16_VisibilityAndGrid ==
    /\ [](\A k \in DOMAIN cubes :
             LET c == cubes[k]
             IN  /\ ~c.visible <=> (~c.hasSpawned \/ c.isHidden)
                 /\ c.visible <=> (c.isGrowing \/ IsIdle(c) \/ c.isCollapsing)
                 /\ c.x * gridSize + c.z = RunCells[k]
                 /\ c.x \in 0..(gridSize - 1) /\ c.z \in 0..(gridSize - 1)
                 /\ c.highlightTime = (c.x * 2 + c.z * 3) * Half)
    /\ [](Len(cubes) \in {0, Len(RunCells)})
    /\ [][cubes # << >> =>
             /\ DOMAIN cubes' = DOMAIN cubes
             /\ \A k \in DOMAIN cubes :
                   Identity(cubes'[k]) = Identity(cubes[k])]_vars

\* C16 witness: a hidden, invisible cell is the hover target under the dark
\* theme, frames having run since it was hidden.
C16_Witness ==
    \E k \in DOMAIN cubes :
        /\ cubes[k].isHidden
        /\ ~cubes[k].visible
        /\ time > cubes[k].hideStartTime
        /\ hoveredCube = k
        /\ theme = "dark"

\* C17: through the component's whole life with a canvasContainer present,
\* every frame (the one ngAfterViewInit runs included) finds a cached palette,
\* so it never falls back to the hard-coded one; the palette it reads is that
\* of the theme value current at the frame, the scene background is that
\* theme's background, and the colours the frame gives a growing cell are the
\* base colours of that palette.
C17_FrameReadsCurrentPalette ==
    [][(FrameStep /\ canvasContainer) =>
          /\ currentColors' # << >>
          /\ FrameColors(currentColors') = Palette(theme')
          /\ scene' # << >>
          /\ scene'[1].background = Background(theme')
          /\ \A k \in DOMAIN cubes' :
                cubes'[k].isGrowing =>
                    /\ cubes'[k].color = Palette(theme').fill
                    /\ cubes'[k].wireColor = Palette(theme').wireframe]_vars

\* C17 witness: a mounted component has run frames under the dark theme, and
\* a cell on its third growing frame has the dark palette's base colours.
C17_Witness ==
    \E k \in DOMAIN cubes :
        /\ canvasContainer
        /\ phase = "viewInit"
        /\ theme = "dark"
        /\ currentColors = <<Palette("dark")>>
        /\ cubes[k].isGrowing
        /\ cubes[k].growProgress = 3 * GrowStep
        /\ cubes[k].color = Palette("dark").fill

Abs(v) == IF v < 0 THEN -v ELSE v

\* the y-offset the retract phase gives cell c at target scale T and progress p
RetractOffset(c, T, p) == Retract(c, T, T + ExpandExtra, p).posY

\* the parts of C18 that hold as stated, for a retracting frame from c to d:
\* the offset is the retract phase's, in the stored direction
RetractDirected(c, d, T) ==
    /\ d.expandDirection = c.expandDirection
    /\ d.posY = RetractOffset(c, T, d.collapseProgress)
    /\ c.expandDirection = "up" => d.posY > 0
    /\ c.expandDirection = "down" => d.posY < 0

\* C18 as stated: on a retracting frame the y-offset is in the stored
\* direction and, at a fixed target scale, its magnitude at the new progress
\* does not exceed its magnitude at the previous progress.
C18_OffsetShrinks ==
    [][FrameStep =>
        \A k \in DOMAIN cubes :
            LET c == cubes[k]
                d == cubes'[k]
                T == TargetScale(c.x, c.z, time')
            IN  (c.isRetracting /\ d.isRetracting) =>
                  /\ RetractDirected(c, d, T)
                  /\ Abs(RetractOffset(c, T, d.collapseProgress))
                       <= Abs(RetractOffset(c, T, c.collapseProgress))]_vars

\* C18 amended: on a retracting frame the y-offset is in the stored direction
\* and, at a fixed target scale, its magnitude grows with the progress: it is
\* (maxScale - target) / 2 + maxScale * progress / 2, from 2.5 at
\* progress 0 towards 2.5 + maxScale / 2; in the run, too, it is larger on
\* every retracting frame than on the one before.
C18_OffsetGrows ==
    [][FrameStep =>
        \A k \in DOMAIN cubes :
            LET c == cubes[k]
                d == cubes'[k]
                T == TargetScale(c.x, c.z, time')
            IN  (c.isRetracting /\ d.isRetracting) =>
                  /\ RetractDirected(c, d, T)
                  /\ Abs(d.posY) = (ExpandExtra * One) \div 2
                                     + ((T + ExpandExtra) * d.collapseProgress) \div 2
                  /\ Abs(RetractOffset(c, T, d.collapseProgress))
                       > Abs(RetractOffset(c, T, c.collapseProgress))
                  /\ Abs(RetractOffset(c, T, 0)) = (ExpandExtra * One) \div 2
                  /\ Abs(d.posY) > Abs(c.posY)]_vars

\* C18 witness: a cell expanding upwards is halfway through retracting, its
\* y-offset above the 2.5 it had when retracting began.
C18_Witness ==
    \E k \in DOMAIN cubes :
        /\ cubes[k].isCollapsing
        /\ cubes[k].isRetracting
        /\ cubes[k].expandDirection = "up"
        /\ cubes[k].collapseProgress = Half
        /\ cubes[k].posY > (ExpandExtra * One) \div 2

\* C19: over the component's whole life: before setup nothing is pending;
\* from setup to teardown exactly one animation-frame callback is pending and
\* animationId is its handle; every frame registers exactly one new callback,
\* under a new handle, and advances the clock by exactly 0.02; no other step
\* changes the clock, which therefore never decreases; and the teardown of a
\* running loop leaves nothing pending.
C19_SinglePendingFrame ==
    /\ [](phase = "constructed" => rafPending = {} /\ animationId = 0 /\ time = 0)
    /\ [](phase = "viewInit" => animationId # 0 /\ rafPending = {animationId})
    /\ [][/\ time' = time \/ time' = time + TimeStep
          /\ FrameStep =>
                /\ phase' = "viewInit"
                /\ rafPending' = {animationId'}
                /\ animationId' # animationId
                /\ animationId' \notin rafPending
          /\ ~FrameStep => animationId' = animationId
          /\ (DestroyStep /\ phase = "viewInit") =>
                rafPending = {animationId} /\ rafPending' = {}]_vars

\* C19 witness: three frames into a mounted component's loop, the third
\* request is the only one pending.
C19_Witness ==
    /\ phase = "viewInit"
    /\ canvasContainer
    /\ time = 3 * TimeStep
    /\ animationId = NextHandle(2 * TimeStep)
    /\ rafPending = {animationId}
    /\ errors = {}

\* the cells whose isHovered flag is set
Flagged == { k \in DOMAIN cubes : cubes[k].isHovered }

\* C20: in every state two cells reach under any interleaving of pointer
\* moves and frames, at most one cell has isHovered set, a cell that has it
\* set is the current hover target, and no cell is collapsing with isHovered
\* set; and a frame changes no isHovered flag and no hover target.
C20_HoverFlagConsistent ==
    /\ [](/\ Cardinality(Flagged) <= 1
          /\ \A k \in Flagged : hoveredCube = k /\ ~cubes[k].isCollapsing)
    /\ [][(FrameStep /\ cubes # << >>) =>
             /\ hoveredCube' = hoveredCube
             /\ \A k \in DOMAIN cubes :
                   cubes'[k].isHovered = cubes[k].isHovered]_vars

\* C20 witness: one cell is collapsing, untouched by the pointer that passed
\* over it, while the other is the hover target with its flag set.
C20_Witness ==
    \E j, k \in DOMAIN cubes :
        /\ j # k
        /\ cubes[j].isCollapsing
        /\ ~cubes[j].isHovered
        /\ hoveredCube = k
        /\ cubes[k].isHovered
        /\ IsIdle(cubes[k])

\* the longest a cell can stay in one mode: the hidden interval, below 4
Dwell == 2 * HideBase

\* the loop has at least Dwell still to run
InTime == time + Dwell <= LiveFrames * TimeStep

\* cell k exists and has mode flag m set
InMode(k, m) == k \in DOMAIN cubes /\ m \in ModeFlags(cubes[k])

\* cell k exists and is idle
NowIdle(k) == k \in DOMAIN cubes /\ IsIdle(cubes[k])

\* C21: while the window keeps running the pending frame callback, under any
\* pointer moves over the canvas in between, a cell that is not-yet-spawned eventually is
\* spawned, a growing cell eventually is idle, a collapsing cell (shrinking
\* or expanding) eventually is hidden, and a hidden cell eventually grows
\* again; stated for every state from which the loop has at least 4 time
\* units, the longest stay in any mode, still to run.
C21_NoModeForever ==
    \A k \in 1..Len(RunCells) :
        /\ (InMode(k, "not-yet-spawned") /\ InTime)
              ~> (k \in DOMAIN cubes /\ cubes[k].hasSpawned)
        /\ (InMode(k, "growing") /\ InTime) ~> NowIdle(k)
        /\ (InMode(k, "collapsing") /\ InTime) ~> InMode(k, "hidden")
        /\ (InMode(k, "hidden") /\ InTime) ~> InMode(k, "growing")

\* C21 witness: a cell that was hidden early enough for its whole hidden
\* interval to lie within the run has been through every mode and is idle
\* again, the pointer by now resting on it.
C21_Witness ==
    \E k \in DOMAIN cubes :
        /\ cubes[k].hideStartTime > 0
        /\ cubes[k].hideStartTime + Dwell <= LiveFrames * TimeStep
        /\ IsIdle(cubes[k])
        /\ cubes[k].growProgress = One
        /\ hoveredCube = k
        /\ cubes[k].isHovered

====
